---- MODULE Spec2Model ----
(***************************************************************************)
(* Persisted document workflow of DocumentService (upload, analyze, get)   *)
(* as a state machine.  Every request is a call that advances one          *)
(* await-delimited segment of its handler per step; the record store and   *)
(* the upload directory are the only shared state.  Requests carry no      *)
(* identity beyond their locals, so the requests made so far are a bag.    *)
(***************************************************************************)
EXTENDS Integers, Sequences, FiniteSets, Bags, TLC

\* ------------------------------------------------------------------------
\* Bounds of the exploration
\* ------------------------------------------------------------------------
MaxCalls == 3
MaxDocs == 1
MaxRetriesCfg == 1

\* ids a request may name: those of the records and one that is never created
DocIds == 1..(MaxDocs + 1)

\* ------------------------------------------------------------------------
\* Program constants
\* ------------------------------------------------------------------------
DefaultMaxFileSize == 5242880
DefaultMaxRetries == 2
MinTextLen == 5
PromptCap == 8000
MetadataCap == 10000
SafeNameMax == 80
DocxPlaceholderLen == 81

\* ------------------------------------------------------------------------
\* Strings are sequences of one-character strings
\* ------------------------------------------------------------------------
Str(n, ch) == [i \in 1..n |-> ch]

IsSpace(ch) == ch \in {" ", "\n", "\t"}

RECURSIVE TrimStart(_)
TrimStart(s) ==
  IF s = <<>> THEN <<>>
  ELSE IF IsSpace(Head(s)) THEN TrimStart(Tail(s)) ELSE s

RECURSIVE TrimEnd(_)
TrimEnd(s) ==
  IF s = <<>> THEN <<>>
  ELSE IF IsSpace(s[Len(s)]) THEN TrimEnd(SubSeq(s, 1, Len(s) - 1)) ELSE s

Trim(s) == TrimEnd(TrimStart(s))

Slice(s, from, to) == SubSeq(s, from + 1, IF to < Len(s) THEN to ELSE Len(s))

SliceLast(s, n) == IF Len(s) <= n THEN s ELSE SubSeq(s, Len(s) - n + 1, Len(s))

ToLowerChar(ch) ==
  CASE ch = "P" -> "p"
    [] ch = "D" -> "d"
    [] ch = "F" -> "f"
    [] ch = "O" -> "o"
    [] ch = "C" -> "c"
    [] ch = "X" -> "x"
    [] ch = "T" -> "t"
    [] ch = "A" -> "a"
    [] ch = "J" -> "j"
    [] ch = "S" -> "s"
    [] ch = "N" -> "n"
    [] OTHER -> ch

ToLowerCase(s) == [i \in 1..Len(s) |-> ToLowerChar(s[i])]

RECURSIVE LastIndexFrom(_, _, _)
LastIndexFrom(s, ch, i) ==
  IF i = 0 THEN 0
  ELSE IF s[i] = ch THEN i ELSE LastIndexFrom(s, ch, i - 1)

LastIndexOf(s, ch) == LastIndexFrom(s, ch, Len(s))

RECURSIVE StripTrailingSlashes(_)
StripTrailingSlashes(s) ==
  IF s # <<>> /\ s[Len(s)] = "/"
  THEN StripTrailingSlashes(SubSeq(s, 1, Len(s) - 1))
  ELSE s

\* path.basename: the part after the last separator, trailing separators dropped
Basename(p) ==
  LET q == StripTrailingSlashes(p)
      k == LastIndexOf(q, "/")
  IN SubSeq(q, k + 1, Len(q))

\* path.extname: from the last dot of the basename, "" when there is none or
\* when the basename starts with its only dot
Extname(p) ==
  LET b == Basename(p)
      k == LastIndexOf(b, ".")
  IN IF k <= 1 \/ b = <<".", ".">> THEN <<>> ELSE SubSeq(b, k, Len(b))

SafeChars ==
  {"a", "b", "c", "d", "e", "f", "o", "p", "t", "x",
   "A", "C", "D", "F", "O", "P", "T", "X",
   "0", "1", ".", "-", "_"}

FallbackName == <<"f", "i", "l", "e", "_", "0">>

\* line 210 left out: the base name is used as it came
sanitizeWithoutReplace(originalName) ==
  LET base == Basename(originalName)
      truncated == SliceLast(base, SafeNameMax)
  IN IF truncated = <<>> THEN FallbackName ELSE truncated

sanitizeFileName(originalName) ==
  LET base == Basename(originalName)
      safe == [i \in 1..Len(base) |->
                 IF base[i] \in SafeChars THEN base[i] ELSE "_"]
      truncated == SliceLast(safe, SafeNameMax)
  IN IF truncated = <<>> THEN FallbackName ELSE truncated

ExtPdf == <<".", "p", "d", "f">>
ExtDocx == <<".", "d", "o", "c", "x">>
ExtTxt == <<".", "t", "x", "t">>

\* ------------------------------------------------------------------------
\* Text extraction
\* ------------------------------------------------------------------------
DocxPlaceholder == Str(DocxPlaceholderLen, "a")

Throw(type, msg) == [threw |-> TRUE, type |-> type, msg |-> msg, value |-> <<>>]
Return(v) == [threw |-> FALSE, type |-> "", msg |-> "", value |-> v]

\* A buffer is its byte length, its UTF-8 decoding and what the PDF parser
\* makes of it (a text, or a parse failure).
extractByExtension(ext, buffer) ==
  IF ext = ExtPdf
  THEN IF buffer.pdfOk
       THEN Return(buffer.pdfText)
       ELSE Throw("Error", "PDF is corrupt or unreadable.")
  ELSE IF ext = ExtDocx
  THEN Return(DocxPlaceholder)
  ELSE IF ext = ExtTxt
  THEN Return(buffer.utf8)
  ELSE Throw("Error", "Unsupported file type")

\* the branch chosen by the declared type of the file
extractByMimeType(buffer, originalName, mimeType) ==
  extractByExtension(
    CASE mimeType = "application/pdf" -> ExtPdf
      [] mimeType = "text/plain" -> ExtTxt
      [] OTHER -> <<>>,
    buffer)

\* the extension is computed once (line 9), then dispatched on
extractTextFromBuffer(buffer, originalName, mimeType) ==
  CHOOSE got \in {extractByExtension(ext, buffer) :
                    ext \in {ToLowerCase(Extname(originalName))}} : TRUE

\* ------------------------------------------------------------------------
\* Inputs: uploaded files and provider responses
\* ------------------------------------------------------------------------
Pad(l, n, t) == Str(l, " ") \o Str(n, "a") \o Str(t, " ")

Buf(len, utf8, pdfOk, pdfText) ==
  [length |-> len, utf8 |-> utf8, pdfOk |-> pdfOk, pdfText |-> pdfText]

File(name, mime, size, buffer) ==
  [present |-> TRUE, originalname |-> name, mimetype |-> mime,
   size |-> size, buffer |-> buffer]

NoFile == [present |-> FALSE]

Files ==
  { NoFile,
    File(<<"a", ".", "P", "D", "F">>, "application/pdf", 7,
         Buf(7, Pad(0, 7, 0), TRUE, Pad(1, 5, 1))),
    File(<<"a", ".", "p", "d", "f">>, "application/pdf", 6,
         Buf(6, Pad(0, 6, 0), TRUE, Pad(1, 4, 1))),
    File(<<"a", ".", "p", "d", "f">>, "text/plain", 4,
         Buf(4, Pad(0, 4, 0), FALSE, <<>>)),
    File(<<"a", ".", "p", "d", "f">>, "application/pdf", 0,
         Buf(0, <<>>, FALSE, <<>>)),
    File(<<"a", ".", "p", "d", "f">>, "application/pdf", DefaultMaxFileSize + 1,
         Buf(9, Pad(0, 9, 0), TRUE, Pad(0, 9, 0))),
    File(<<"d", "/", "b", ".", "d", "o", "c", "x">>, "application/msword", 8,
         Buf(8, Pad(0, 8, 0), FALSE, <<>>)),
    File(<<"t", ".", "t", "x", "t">>, "text/plain", 6,
         Buf(6, Pad(0, 6, 0), FALSE, <<>>)) }

\* Documents whose text reaches the cap of the prompt: one character more than
\* the cap, and exactly the cap
LongFiles ==
  { File(<<"c", ".", "p", "d", "f">>, "application/pdf", PromptCap + 1,
         Buf(PromptCap + 1, <<>>, TRUE, <<"b">> \o Str(PromptCap, "a"))),
    File(<<"e", ".", "p", "d", "f">>, "application/pdf", PromptCap,
         Buf(PromptCap, <<>>, TRUE, Str(PromptCap - 1, "a") \o <<"b">>)) }

\* Names a client may send: a path with characters outside the safe class and
\* more than SafeNameMax characters, a backslash path, a name of exactly
\* SafeNameMax characters, and an extension with a character appended
NameFiles ==
  { File(<<".", ".", "/">> \o Str(SafeNameMax + 10, "a")
           \o <<" ", "#", ".", "p", "d", "f">>,
         "application/pdf", 7, Buf(7, Pad(0, 7, 0), TRUE, Pad(0, 6, 0))),
    File(<<".", ".", "\\", "%", ".", "P", "D", "F">>,
         "application/pdf", 8, Buf(8, Pad(0, 8, 0), FALSE, <<>>)),
    File(Str(SafeNameMax - 4, "a") \o ExtPdf,
         "application/pdf", 7, Buf(7, Pad(0, 7, 0), TRUE, Pad(0, 6, 0))),
    File(<<"x", ".", "p", "d", "f", "#">>,
         "application/pdf", 7, Buf(7, Pad(0, 7, 0), TRUE, Pad(0, 6, 0))) }

\* The same bytes under the same name, declared with one type and another
MimeTypes == {"application/pdf", "text/plain"}

MimeNames ==
  { <<"a", ".", "P", "D", "F">>, <<"b", ".", "d", "o", "c", "x">>,
    <<"t", ".", "T", "x", "t">>, <<"n", ".", "d", "o", "c">>, <<"p", "d", "f">> }

MimeBuffers ==
  { Buf(7, Pad(0, 7, 0), TRUE, Pad(0, 6, 0)),
    Buf(8, Pad(0, 8, 0), FALSE, <<>>) }

MimeFiles ==
  { File(name, mime, buffer.length, buffer) :
      name \in MimeNames, mime \in MimeTypes, buffer \in MimeBuffers }

\* What JSON.parse makes of the JSON candidate of a response text.  Absent
\* keys carry the marker Absent; metadata is a value with its serialized size.
Absent == "<absent>"
Null == "<null>"

Meta(kind, tag, len) == [kind |-> kind, tag |-> tag, len |-> len]
MetaAbsent == Meta("absent", "", 0)
MetaNull == Meta("null", "", 4)
MetaEmptyObject == Meta("object", "{}", 2)
\* line 462: {"notice":"Metadata truncated due to size."}
MetaNotice == Meta("object", "notice", 44)

Json(kind, summary, docType, metadata) ==
  [kind |-> kind, summary |-> summary, docType |-> docType, metadata |-> metadata]

JsonMalformed == Json("malformed", Absent, Absent, MetaAbsent)
JsonNull == Json("null", Absent, Absent, MetaAbsent)

\* The text of a model response: the characters returned by
\* result.response.text(); NullText is the null responseText starts as.
ResponseText(raw) == [isNull |-> FALSE, raw |-> raw]
NullText == [isNull |-> TRUE, raw |-> <<>>]

\* the backtick character, written ^
Backtick == "^"

Fence == <<Backtick, Backtick, Backtick>>
FenceJson == Fence \o <<"j", "s", "o", "n">>

\* A JSON object is written { m }, where the one character m stands for a
\* well-formed list of members; these are the objects the letters stand for.
Members ==
  [m \in {"1", "2", "3", "4", "5", "6"} |->
     CASE m = "1" -> Json("object", "s1", "invoice",
                          Meta("object", "m1", MetadataCap))
       [] m = "2" -> Json("object", "s2", "report", MetaAbsent)
       [] m = "3" -> Json("object", "s1", Absent, MetaNull)
       [] m = "4" -> Json("object", "", "invoice", MetaNull)
       [] m = "5" -> Json("object", "s1", "invoice",
                          Meta("object", "big", MetadataCap + 1))
       [] m = "6" -> Json("object", "s2", "letter", MetaNull)]

Obj(m) == <<"{", m, "}">>

Responses ==
  { ResponseText(<<" ", "\n">>),
    ResponseText(<<"x">>),
    ResponseText(<<"n", "u", "l", "l">>),
    ResponseText(Obj("1")),
    ResponseText(Obj("2")),
    ResponseText(Obj("3")),
    ResponseText(Obj("4")),
    ResponseText(Obj("5")),
    ResponseText(Obj("6")),
    ResponseText(Obj("1") \o Fence \o <<"J", "S", "O", "N", "\n">>
                   \o Obj("2") \o <<"\n">> \o Fence \o FenceJson
                   \o Obj("3") \o Fence \o <<"}">>),
    ResponseText(<<"x", " ">> \o Obj("1") \o <<" ", "x", "}", "x">>),
    ResponseText(FenceJson \o <<" ">> \o Obj("2")),
    ResponseText(<<" ", "}", " ", "{", "\n">>) }

\* JSON.parse of line 442, for the JSON texts written as above
JSONParse(text) ==
  LET t == Trim(text)
  IN IF t = <<"n", "u", "l", "l">> THEN JsonNull
     ELSE IF t = <<"{", "}">> THEN Json("object", Absent, Absent, MetaAbsent)
     ELSE IF Len(t) = 3 /\ t[1] = "{" /\ t[3] = "}" /\ t[2] \in DOMAIN Members
     THEN Members[t[2]]
     ELSE JsonMalformed

\* the least k >= from at which pattern occurs in text, letter case ignored
\* when fold is set; 0 when there is none
FirstIndexOf(text, pattern, from, fold) ==
  LET hits == {k \in from..(Len(text) - Len(pattern) + 1) :
                 LET part == SubSeq(text, k, k + Len(pattern) - 1)
                 IN (IF fold THEN ToLowerCase(part) ELSE part) = pattern}
  IN IF hits = {} THEN 0 ELSE CHOOSE k \in hits : \A j \in hits : k <= j

\* the fallback of lines 241-245 taken first
extractBracesFirst(text) ==
  LET open == FirstIndexOf(text, FenceJson, 1, TRUE)
      close == IF open = 0 THEN 0
               ELSE FirstIndexOf(text, Fence, open + Len(FenceJson), FALSE)
      firstBrace == FirstIndexOf(text, <<"{">>, 1, FALSE)
      lastBrace == LastIndexOf(text, "}")
  IN IF firstBrace # 0 /\ lastBrace # 0 /\ lastBrace > firstBrace
     THEN SubSeq(text, firstBrace, lastBrace)
     ELSE IF open # 0 /\ close # 0
     THEN Trim(SubSeq(text, open + Len(FenceJson), close - 1))
     ELSE Trim(text)

\* lines 233-247: the match of the pattern of line 235 starts at the first
\* opening fence, tagged json in any letter case, that has a closing fence
\* after it, and ends at the nearest such fence
extractFirstJsonBlock(text) ==
  LET open == FirstIndexOf(text, FenceJson, 1, TRUE)
      close == IF open = 0 THEN 0
               ELSE FirstIndexOf(text, Fence, open + Len(FenceJson), FALSE)
      firstBrace == FirstIndexOf(text, <<"{">>, 1, FALSE)
      lastBrace == LastIndexOf(text, "}")
  IN IF open # 0 /\ close # 0
     THEN Trim(SubSeq(text, open + Len(FenceJson), close - 1))
     ELSE IF firstBrace # 0 /\ lastBrace # 0 /\ lastBrace > firstBrace
     THEN SubSeq(text, firstBrace, lastBrace)
     ELSE Trim(text)

\* presence of the key, as the in operator tests it
HasKey(v) == v # Absent

\* line 452: JavaScript truthiness of a string-valued property
Truthy(v) == v \notin {Absent, Null, ""}

\* ------------------------------------------------------------------------
\* State
\* ------------------------------------------------------------------------
VARIABLES
  docs,               \* the Document table: record id = index
  disk,               \* storage paths present in the upload directory
  nextPath,           \* uniqueness of the generated file name prefix
  calls,              \* bag of the requests made: position and locals of each
  aiMaxRetries,       \* constructor: GEMINI_MAX_RETRIES
  allowedExtensions   \* constructor: ALLOWED_FILE_TYPES

vars == <<docs, disk, nextPath, calls, aiMaxRetries, allowedExtensions>>

maxFileSizeBytes == DefaultMaxFileSize

NoDoc == [found |-> FALSE]
NoErr == Throw("", "")
NoRet == [kind |-> "none"]
NoPath == [n |-> 0, name |-> <<>>]

NewCall(op, id, file) ==
  [op |-> op, pc |-> "start", id |-> id, file |-> file,
   seen |-> "", attempt |-> 0, invocations |-> 0, answeredAt |-> 0,
   abandoned |-> {},
   writes |-> 0,
   promptText |-> <<>>, responseText |-> NullText, candidate |-> <<>>,
   parsed |-> JsonMalformed, data |-> JsonMalformed,
   reason |-> "", err |-> NoErr, storagePath |-> NoPath, text |-> <<>>,
   logged |-> "", cleanup |-> "", ret |-> NoRet]

Ok(v) == [kind |-> "ok", value |-> v]
Err(e) == [kind |-> "error", type |-> e.type, msg |-> e.msg]

\* constructor, line 196: Number(config) || default, for the configured value v
ConfiguredRetries(v) == IF v = 0 THEN DefaultMaxRetries ELSE v

\* constructor, lines 192-193: ALLOWED_FILE_TYPES left unset
DefaultAllowed == {ExtPdf, ExtDocx}

Init ==
  /\ docs = <<>>
  /\ disk = {}
  /\ nextPath = 0
  /\ calls = EmptyBag
  /\ aiMaxRetries \in {ConfiguredRetries(v) : v \in 0..MaxRetriesCfg}
  /\ allowedExtensions = DefaultAllowed

Requests == BagToSet(calls)

\* a new request arrives
Arrives(call) ==
  /\ BagCardinality(calls) < MaxCalls
  /\ calls' = calls (+) SetToBag({call})

\* a request moves on
Becomes(old, new) ==
  calls' = (calls (-) SetToBag({old})) (+) SetToBag({new})

At(call, op, pc) == call \in Requests /\ call.op = op /\ call.pc = pc

Finish(call, ret) ==
  [call EXCEPT !.pc = "done", !.ret = ret, !.responseText = NullText,
               !.candidate = <<>>, !.parsed = JsonMalformed,
               !.data = JsonMalformed, !.err = NoErr, !.reason = "",
               !.text = <<>>, !.promptText = <<>>, !.attempt = 0,
               !.file = NoFile]

\* ------------------------------------------------------------------------
\* POST /documents/upload
\* ------------------------------------------------------------------------
NewDocument(file, size, storagePath, text) ==
  [originalName |-> file.originalname, mimeType |-> file.mimetype,
   size |-> size, storagePath |-> storagePath, extractedText |-> text,
   summary |-> Null, docType |-> Null, metadata |-> MetaNull,
   status |-> "uploaded"]

\* lines 262-284: the checks made before anything is written
Validate(file) ==
  IF ~file.present
  THEN Throw("BadRequest", "File is required.")
  ELSE IF file.buffer.length = 0
  THEN Throw("BadRequest", "Uploaded file is empty or unreadable.")
  ELSE IF file.size > maxFileSizeBytes
  THEN Throw("BadRequest", "File too large.")
  ELSE IF ToLowerCase(Extname(file.originalname)) \notin allowedExtensions
  THEN Throw("BadRequest", "Unsupported file type.")
  ELSE Return(<<>>)

\* lines 262-290: validation and the storage path
uploadDocument(file) ==
  /\ nextPath < MaxDocs
  /\ LET call == NewCall("upload", 0, file)
         checked == Validate(file)
     IN IF checked.threw
        THEN /\ Arrives([Finish(call, Err(checked)) EXCEPT !.file = file])
             /\ UNCHANGED nextPath
        ELSE /\ nextPath' = nextPath + 1
             /\ Arrives([call EXCEPT !.pc = "write",
                           !.storagePath =
                             [n |-> nextPath + 1,
                              name |-> sanitizeFileName(file.originalname)]])
  /\ UNCHANGED <<docs, disk, aiMaxRetries, allowedExtensions>>

\* the length check of line 316 made on the untrimmed text
ExtractedUntrimmed(call, got) ==
     IF got.threw
     THEN [call EXCEPT !.pc = "unlink",
                       !.logged = "Text extraction failed",
                       !.err = Throw("InternalServerError",
                                     "We could not read text from this document.")]
     ELSE IF got.value = <<>> \/ Len(got.value) < MinTextLen
     THEN [call EXCEPT !.pc = "unlink",
                       !.err = Throw("BadRequest",
                                     "The uploaded document contains no readable text.")]
     ELSE [call EXCEPT !.pc = "create", !.text = got.value]

\* lines 299-325: the extracted text is checked
Extracted(call, got) ==
     IF got.threw
     THEN [call EXCEPT !.pc = "unlink",
                       !.logged = "Text extraction failed",
                       !.err = Throw("InternalServerError",
                                     "We could not read text from this document.")]
     ELSE IF got.value = <<>> \/ Len(Trim(got.value)) < MinTextLen
     THEN [call EXCEPT !.pc = "unlink",
                       !.err = Throw("BadRequest",
                                     "The uploaded document contains no readable text.")]
     ELSE [call EXCEPT !.pc = "create", !.text = got.value]

\* lines 292-325: the file is written, then the text is extracted and checked
uploadWrite(call) ==
  /\ At(call, "upload", "write")
  /\ disk' = disk \cup {call.storagePath}
  /\ \E got \in {extractTextFromBuffer(call.file.buffer,
                                         call.file.originalname,
                                         call.file.mimetype)} :
       Becomes(call, Extracted(call, got))
  /\ UNCHANGED <<docs, nextPath, aiMaxRetries, allowedExtensions>>

\* lines 294-297: writeFile rejects; a failed write may leave a partial file
uploadWriteFails(call) ==
  /\ At(call, "upload", "write")
  /\ \E partial \in BOOLEAN :
       disk' = IF partial THEN disk \cup {call.storagePath} ELSE disk
  /\ Becomes(call,
       Finish([call EXCEPT !.logged = "Failed to store file on disk"],
              Err(Throw("InternalServerError", "Failed to store uploaded file."))))
  /\ UNCHANGED <<docs, nextPath, aiMaxRetries, allowedExtensions>>

\* lines 307, 318: fs.promises.unlink resolves (removed) or rejects
unlink(path, removed) == IF removed THEN disk \ {path} ELSE disk

\* the cleanup made, but the throw after it forgotten
uploadUnlinkNoThrow(call) ==
  /\ At(call, "upload", "unlink")
  /\ \E removed \in BOOLEAN :
       /\ disk' = unlink(call.storagePath, removed)
       /\ Becomes(call, [call EXCEPT !.pc = "create",
                           !.cleanup = IF removed THEN "removed" ELSE "ignored"])
  /\ UNCHANGED <<docs, nextPath, aiMaxRetries, allowedExtensions>>

\* lines 306-310, 317-321: best-effort cleanup, whose own failure is ignored,
\* then the error is thrown
uploadUnlink(call) ==
  /\ At(call, "upload", "unlink")
  /\ \E removed \in BOOLEAN :
       /\ disk' = unlink(call.storagePath, removed)
       /\ Becomes(call,
            Finish([call EXCEPT
                      !.cleanup = IF removed THEN "removed" ELSE "ignored"],
                   Err(call.err)))
  /\ UNCHANGED <<docs, nextPath, aiMaxRetries, allowedExtensions>>

\* lines 327-347: the record is created
uploadCreate(call) ==
  /\ At(call, "upload", "create")
  /\ LET doc == NewDocument(call.file, call.file.size, call.storagePath, call.text)
     IN /\ docs' = Append(docs, doc)
        /\ Becomes(call,
             Finish([call EXCEPT !.id = Len(docs) + 1],
                    Ok([id |-> Len(docs) + 1, originalName |-> doc.originalName,
                        mimeType |-> doc.mimeType, size |-> doc.size,
                        status |-> doc.status])))
  /\ UNCHANGED <<disk, nextPath, aiMaxRetries, allowedExtensions>>

\* ------------------------------------------------------------------------
\* POST /documents/:id/analyze
\* ------------------------------------------------------------------------
\* a lookup that falls back to the first record
findFirst(id) ==
  IF docs = <<>> THEN [found |-> FALSE]
  ELSE IF id \in 1..Len(docs) THEN docs[id] ELSE docs[1]

findUnique(id) == IF id \in 1..Len(docs) THEN docs[id] ELSE NoDoc

Found(doc) == doc # NoDoc

AnalysisView(id, doc) ==
  [id |-> id, status |-> doc.status, summary |-> doc.summary,
   docType |-> doc.docType, metadata |-> doc.metadata]

GenericFailure ==
  Throw("InternalServerError", "AI summarization failed. Please try again later.")

\* failDocument keeping its reason in the record
failDocumentStoringReason(id) ==
  [docs EXCEPT ![id].status = "failed", ![id].summary = "Gemini analysis failed"]

\* failDocument without its update
failDocumentNoWrite(id) == docs

\* lines 249-257: failDocument writes the status only
failDocument(id) == [docs EXCEPT ![id].status = "failed"]

\* lines 380-384
markProcessing(id) == [docs EXCEPT ![id].status = "processing"]

\* the status written by an update of its own, ahead of the result
saveStatusOnly(id, parsed) == [docs EXCEPT ![id].status = "analyzed"]

\* lines 465-473: one update writes the result and the status
saveAnalysis(id, parsed) ==
  [docs EXCEPT ![id].summary = parsed.summary,
               ![id].docType = parsed.docType,
               ![id].metadata = IF parsed.metadata.kind \in {"absent", "null"}
                                THEN MetaEmptyObject
                                ELSE parsed.metadata,
               ![id].status = "analyzed"]

\* the conflict check of lines 376-378 left out
StatusDecisionNoConflict(status) ==
  CASE status = "analyzed" -> "return"
    [] OTHER -> "proceed"

\* a failed record treated like one in progress
StatusDecisionFailedConflicts(status) ==
  CASE status = "analyzed" -> "return"
    [] status \in {"processing", "failed"} -> "conflict"
    [] OTHER -> "proceed"

\* the idempotency check of lines 365-374 left out
StatusDecisionNoShortCircuit(status) ==
  CASE status = "processing" -> "conflict"
    [] OTHER -> "proceed"

\* lines 365-378: what the handler does with the status it has read
StatusDecision(status) ==
  CASE status = "analyzed" -> "return"
    [] status = "processing" -> "conflict"
    [] OTHER -> "proceed"

\* lines 352-378: the request is decided on the record read
Decide(call, doc) ==
  IF ~Found(doc)
  THEN Finish(call, Err(Throw("NotFound", "Document not found.")))
  ELSE IF doc.extractedText = <<>> \/ Len(Trim(doc.extractedText)) < MinTextLen
  THEN Finish([call EXCEPT !.seen = doc.status],
              Err(Throw("InternalServerError",
                        "Document has no extracted text to analyze.")))
  ELSE IF StatusDecision(doc.status) = "return"
  THEN Finish([call EXCEPT !.seen = doc.status], Ok(AnalysisView(call.id, doc)))
  ELSE IF StatusDecision(doc.status) = "conflict"
  THEN Finish([call EXCEPT !.seen = doc.status],
              Err(Throw("Conflict", "Document analysis is already in progress.")))
  ELSE [call EXCEPT !.pc = "mark", !.seen = doc.status,
                    !.text = doc.extractedText]

\* lines 352-378: the record is read and the request is decided
analyzeDocument(id) ==
  /\ Arrives(Decide(NewCall("analyze", id, NoFile), findUnique(id)))
  /\ UNCHANGED <<docs, disk, nextPath, aiMaxRetries, allowedExtensions>>

\* the comparison of line 460 made inclusive
capMetadataInclusive(metadata) ==
  IF metadata.kind = "object" /\ metadata.len >= MetadataCap
  THEN MetaNotice
  ELSE metadata

\* lines 459-463: a truthy metadata serializing to more than the cap is
\* replaced by the notice
capMetadata(metadata) ==
  IF metadata.kind = "object" /\ metadata.len > MetadataCap
  THEN MetaNotice
  ELSE metadata

\* lines 433-463: the checks on the text the attempt loop ended with
AfterLoop(call, responseText) ==
  LET jsonCandidate == extractFirstJsonBlock(responseText.raw)
      parsed == JSONParse(jsonCandidate)
      tried == [call EXCEPT !.candidate = jsonCandidate, !.parsed = parsed]
  IN IF responseText.isNull \/ Trim(responseText.raw) = <<>>
     THEN [call EXCEPT !.pc = "failInner",
                       !.reason = "Gemini returned empty response",
                       !.err = Throw("InternalServerError",
                                     "AI returned an empty response.")]
     ELSE IF parsed.kind = "malformed"
     THEN [tried EXCEPT !.pc = "failInner",
                        !.logged = "Failed to parse Gemini JSON",
                        !.reason = "Invalid JSON from AI",
                        !.err = Throw("InternalServerError",
                                      "AI generated an invalid response.")]
     ELSE IF parsed.kind = "null"
     THEN [tried EXCEPT !.pc = "failOuter",
                        !.logged = "Gemini analysis failed",
                        !.err = Throw("TypeError", "Cannot read properties of null")]
     ELSE IF ~Truthy(parsed.summary) \/ ~Truthy(parsed.docType)
     THEN [tried EXCEPT !.pc = "failInner",
                        !.reason = "Missing required fields in AI output",
                        !.err = Throw("InternalServerError",
                                      "AI response was incomplete.")]
     ELSE [tried EXCEPT !.pc = "save",
                        !.data = [parsed EXCEPT
                                    !.metadata = capMetadata(parsed.metadata)]]

\* line 419: the loop condition before an attempt is started
LoopContinues(attempt) == attempt <= aiMaxRetries

\* the comparison of line 427 off by one
LastAttemptOffByOne(attempt) == attempt = aiMaxRetries + 1

\* line 427: the last attempt rethrows
LastAttempt(attempt) == attempt = aiMaxRetries

\* lines 419-422: one attempt is started, or the loop is left
StartAttempt(call, attempt) ==
  IF LoopContinues(attempt)
  THEN [call EXCEPT !.pc = "await", !.attempt = attempt,
                    !.invocations = @ + 1]
  ELSE AfterLoop(call, call.responseText)

\* line 386 taking the end of the text, as line 211 does of the file name
promptTextFromEnd(extractedText) == SliceLast(extractedText, PromptCap)

\* line 386: the text embedded in the prompt of lines 388-405
promptText(extractedText) == Slice(extractedText, 0, PromptCap)

\* lines 380-422: the status write, the prompt and the first attempt
analyzeMark(call) ==
  /\ At(call, "analyze", "mark")
  /\ docs' = markProcessing(call.id)
  /\ Becomes(call,
       StartAttempt([call EXCEPT !.writes = @ + 1,
                                 !.promptText = promptText(call.text)],
                    1))
  /\ UNCHANGED <<disk, nextPath, aiMaxRetries, allowedExtensions>>

\* lines 424-430 and 482-483: an attempt failed with err
AttemptFailed(call, err) ==
  LET warned == [call EXCEPT !.logged = err.msg]
  IN IF LastAttempt(call.attempt)
     THEN [warned EXCEPT !.pc = "failOuter", !.err = err]
     ELSE StartAttempt(warned, call.attempt + 1)

\* an empty answer counted as a failed attempt
AttemptSucceededUnlessEmpty(call, responseText) ==
  LET answered == [call EXCEPT !.answeredAt = call.invocations,
                               !.responseText = responseText]
  IN IF Trim(responseText.raw) = <<>> /\ ~LastAttempt(call.attempt)
     THEN StartAttempt(answered, call.attempt + 1)
     ELSE AfterLoop(answered, responseText)

\* lines 422-423: whatever the attempt resolved with is kept and ends the loop
AttemptSucceeded(call, responseText) ==
  AfterLoop([call EXCEPT !.answeredAt = call.invocations,
                         !.responseText = responseText],
            responseText)

\* lines 222-225, 422-423: the provider answers before the timer fires
providerResponds(call, responseText) ==
  /\ At(call, "analyze", "await")
  /\ Becomes(call, AttemptSucceeded(call, responseText))
  /\ UNCHANGED <<docs, disk, nextPath, aiMaxRetries, allowedExtensions>>

\* lines 226-229: the provider call rejects before the timer fires
providerRejects(call) ==
  /\ At(call, "analyze", "await")
  /\ Becomes(call, AttemptFailed(call, Throw("Error", "provider error")))
  /\ UNCHANGED <<docs, disk, nextPath, aiMaxRetries, allowedExtensions>>

\* lines 217-219: the timer of the attempt fires first
\* the provider call goes on, its attempt abandoned
timerFires(call) ==
  /\ At(call, "analyze", "await")
  /\ Becomes(call,
       AttemptFailed([call EXCEPT !.abandoned = @ \cup {call.attempt}],
                     Throw("Error", "AI request timed out")))
  /\ UNCHANGED <<docs, disk, nextPath, aiMaxRetries, allowedExtensions>>

\* the late answer of an abandoned attempt resolving the attempt now awaited
settledLateTaken(call, attempt, responseText) ==
  IF call.pc = "await"
  THEN AttemptSucceeded([call EXCEPT !.abandoned = @ \ {attempt}],
                        responseText)
  ELSE [call EXCEPT !.abandoned = @ \ {attempt}]

\* lines 216-229: the promise was rejected at line 218, so the resolve of line
\* 224 and the reject of line 228 do nothing
settledLate(call, attempt, responseText) ==
  [call EXCEPT !.abandoned = @ \ {attempt}]

\* lines 222-225: the provider answers an attempt whose timer has fired
providerRespondsLate(call, attempt, responseText) ==
  /\ call \in Requests /\ call.op = "analyze"
  /\ attempt \in call.abandoned
  /\ Becomes(call, settledLate(call, attempt, responseText))
  /\ UNCHANGED <<docs, disk, nextPath, aiMaxRetries, allowedExtensions>>

\* lines 226-229: the provider call of an abandoned attempt rejects
providerRejectsLate(call, attempt) ==
  /\ call \in Requests /\ call.op = "analyze"
  /\ attempt \in call.abandoned
  /\ Becomes(call, settledLate(call, attempt, NullText))
  /\ UNCHANGED <<docs, disk, nextPath, aiMaxRetries, allowedExtensions>>

\* lines 434-435, 446-449, 453-456: failDocument, then the specific exception
\* is thrown into the handler's own catch (lines 482-483)
analyzeFailInner(call) ==
  /\ At(call, "analyze", "failInner")
  /\ docs' = failDocument(call.id)
  /\ Becomes(call, [call EXCEPT !.pc = "failOuter", !.writes = @ + 1,
                                !.logged = call.reason])
  /\ UNCHANGED <<disk, nextPath, aiMaxRetries, allowedExtensions>>

\* the catch block rethrowing what it caught
CaughtAsRethrown(err) == err

\* lines 482-488: what the catch block throws to the caller
CaughtAs(err) == GenericFailure

\* lines 482-488: the catch block marks the record failed and throws
analyzeFailOuter(call) ==
  /\ At(call, "analyze", "failOuter")
  /\ docs' = failDocument(call.id)
  /\ Becomes(call,
       Finish([call EXCEPT !.writes = @ + 1, !.logged = call.err.msg],
              Err(CaughtAs(call.err))))
  /\ UNCHANGED <<disk, nextPath, aiMaxRetries, allowedExtensions>>

\* lines 465-481: the result and the status are written in one update
analyzeSave(call) ==
  /\ At(call, "analyze", "save")
  /\ docs' = saveAnalysis(call.id, call.data)
  /\ Becomes(call,
       Finish([call EXCEPT !.writes = @ + 1],
              Ok(AnalysisView(call.id, docs'[call.id]))))
  /\ UNCHANGED <<disk, nextPath, aiMaxRetries, allowedExtensions>>

\* ------------------------------------------------------------------------
\* GET /documents/:id
\* ------------------------------------------------------------------------
getDocument(id) ==
  /\ LET doc == findUnique(id)
         call == NewCall("get", id, NoFile)
     IN Arrives(IF ~Found(doc)
                THEN Finish(call, Err(Throw("NotFound", "Document not found.")))
                ELSE Finish(call, Ok([id |-> id] @@ doc)))
  /\ UNCHANGED <<docs, disk, nextPath, aiMaxRetries, allowedExtensions>>

\* ------------------------------------------------------------------------
\* Specification
\* ------------------------------------------------------------------------
Next ==
  \/ \E file \in Files : uploadDocument(file)
  \/ \E call \in Requests : uploadWrite(call)
  \/ \E call \in Requests : uploadWriteFails(call)
  \/ \E call \in Requests : uploadUnlink(call)
  \/ \E call \in Requests : uploadCreate(call)
  \/ \E id \in DocIds : analyzeDocument(id)
  \/ \E call \in Requests : analyzeMark(call)
  \/ \E call \in Requests, r \in Responses : providerResponds(call, r)
  \/ \E call \in Requests : providerRejects(call)
  \/ \E call \in Requests : timerFires(call)
  \/ \E call \in Requests, attempt \in 1..aiMaxRetries, r \in Responses :
       providerRespondsLate(call, attempt, r)
  \/ \E call \in Requests, attempt \in 1..aiMaxRetries :
       providerRejectsLate(call, attempt)
  \/ \E call \in Requests : analyzeFailInner(call)
  \/ \E call \in Requests : analyzeFailOuter(call)
  \/ \E call \in Requests : analyzeSave(call)
  \/ \E id \in DocIds : getDocument(id)

Spec == Init /\ [][Next]_vars

\* The await-resumed steps of the requests in flight.  Node's event loop runs
\* the continuation of every settled promise, the timer of an attempt fires
\* after aiTimeoutMs, and the persistence calls complete.
Progress ==
  \E call \in Requests :
    \/ uploadWrite(call)
    \/ uploadUnlink(call)
    \/ uploadCreate(call)
    \/ analyzeMark(call)
    \/ timerFires(call)
    \/ analyzeFailInner(call)
    \/ analyzeFailOuter(call)
    \/ analyzeSave(call)

LiveSpec == Init /\ [][Next]_vars /\ WF_vars(Progress)

\* ------------------------------------------------------------------------
\* POST /documents/summarize: the synchronous revision of the service
\* (document.service.ts lines 12-147), which holds no record store
\* ------------------------------------------------------------------------
\* lines 128-135 with the last field forgotten
requiredFieldsNoSentiment ==
  <<"summary", "title", "keywords", "language", "domain">>

\* lines 128-135
requiredFields ==
  <<"summary", "title", "keywords", "language", "domain", "sentiment">>

\* summary-result.type.ts: the keys of a SummaryResult
ResultKeys ==
  {"summary", "title", "keywords", "language", "domain", "sentiment"}

\* What JSON.parse makes of the raw content: a syntax error, null, or an
\* object with its own keys; tag tells objects with the same keys apart.
Parsed(kind, keys, tag) == [kind |-> kind, keys |-> keys, tag |-> tag]

ParsedMalformed == Parsed("malformed", {}, "")
ParsedNull == Parsed("null", {}, "")

\* line 103: completion.choices[0]?.message?.content
Content(isNull, blank, parsed) ==
  [isNull |-> isNull, blank |-> blank, parsed |-> parsed]

Completions ==
  { Content(TRUE, TRUE, ParsedMalformed),
    Content(FALSE, TRUE, ParsedMalformed),
    Content(FALSE, FALSE, ParsedMalformed),
    Content(FALSE, FALSE, ParsedNull),
    Content(FALSE, FALSE, Parsed("object", ResultKeys, "r1")),
    Content(FALSE, FALSE, Parsed("object", ResultKeys \cup {"extra"}, "r2")),
    Content(FALSE, FALSE, Parsed("object", {}, "")),
    Content(FALSE, FALSE, Parsed("object", ResultKeys \ {"title", "sentiment"}, "")),
    Content(FALSE, FALSE, Parsed("object", ResultKeys \ {"summary", "title"}, "")) }
    \cup { Content(FALSE, FALSE, Parsed("object", ResultKeys \ {k}, "")) :
             k \in ResultKeys }

\* line 42: the message built from the extractor's
ExtractFailedMessage(msg) ==
  CASE msg = "PDF is corrupt or unreadable."
         -> "Failed to extract text: PDF is corrupt or unreadable."
    [] msg = "Unsupported file type"
         -> "Failed to extract text: Unsupported file type"

\* line 140: the message built from the field's name
MissingFieldMessage(field) ==
  CASE field = "summary" -> "AI response missing required field: summary"
    [] field = "title" -> "AI response missing required field: title"
    [] field = "keywords" -> "AI response missing required field: keywords"
    [] field = "language" -> "AI response missing required field: language"
    [] field = "domain" -> "AI response missing required field: domain"
    [] field = "sentiment" -> "AI response missing required field: sentiment"

\* the loop of lines 137-143 reporting the last field it found missing
LastMissingFrom(keys, i) ==
  LET missing == {j \in i..Len(requiredFields) : requiredFields[j] \notin keys}
  IN IF missing = {} THEN 0
     ELSE CHOOSE j \in missing : \A k \in missing : k <= j

\* lines 137-143: the index of the first required field, from the i-th on,
\* that is no key of the parsed object; 0 when there is none
RECURSIVE FirstMissingFrom(_, _)
FirstMissingFrom(keys, i) ==
  IF i > Len(requiredFields) THEN 0
  ELSE IF requiredFields[i] \notin keys THEN i
  ELSE FirstMissingFrom(keys, i + 1)

\* lines 103-145: the raw content is checked, parsed and validated
ValidateContent(content) ==
  IF content.isNull \/ content.blank
  THEN Throw("InternalServerError", "AI returned an empty or invalid response.")
  ELSE IF content.parsed.kind = "malformed"
  THEN Throw("InternalServerError", "AI returned malformed JSON.")
  ELSE IF content.parsed.kind = "null"
  THEN Throw("TypeError", "Cannot use 'in' operator to search for 'summary' in null")
  ELSE IF FirstMissingFrom(content.parsed.keys, 1) # 0
  THEN Throw("InternalServerError",
             MissingFieldMessage(
               requiredFields[FirstMissingFrom(content.parsed.keys, 1)]))
  ELSE Return(content.parsed)

\* line 55: the text embedded in the prompt
Trimmed(text) ==
  IF Len(text) > PromptCap THEN Slice(text, 0, PromptCap) ELSE text

\* lines 27-92: extraction, the text check, the prompt and the one request
summarizeAndExtract(file) ==
  /\ file.present
  /\ \E got \in {extractTextFromBuffer(file.buffer, file.originalname,
                                       file.mimetype)} :
       LET call == NewCall("summarize", 0, file)
       IN Arrives(
            IF got.threw
            THEN [Finish(call, Err(Throw("InternalServerError",
                                         ExtractFailedMessage(got.msg))))
                  EXCEPT !.file = file]
            ELSE IF got.value = <<>> \/ Len(Trim(got.value)) < MinTextLen
            THEN [Finish(call,
                    Err(Throw("InternalServerError",
                              "The uploaded document contains no readable or valid text.")))
                  EXCEPT !.file = file]
            ELSE [call EXCEPT !.pc = "complete", !.text = got.value,
                              !.promptText = Trimmed(got.value),
                              !.invocations = @ + 1])
  /\ UNCHANGED <<docs, disk, nextPath, aiMaxRetries, allowedExtensions>>

\* lines 84-92, 103-145: the completion arrives and is validated; the finished
\* call keeps what was parsed next to what was returned
completionResolves(call, content) ==
  /\ At(call, "summarize", "complete")
  /\ \E checked \in {ValidateContent(content)} :
       Becomes(call,
         [(IF checked.threw
           THEN Finish([call EXCEPT
                          !.logged = IF checked.msg = "AI returned malformed JSON."
                                     THEN "Invalid JSON from AI:" ELSE @],
                       Err(checked))
           ELSE Finish(call, Ok(checked.value)))
          EXCEPT !.data = content.parsed])
  /\ UNCHANGED <<docs, disk, nextPath, aiMaxRetries, allowedExtensions>>

\* lines 93-98: the request to the provider fails
completionRejects(call) ==
  /\ At(call, "summarize", "complete")
  /\ Becomes(call,
       Finish([call EXCEPT !.logged = "OpenAI Error:"],
              Err(Throw("InternalServerError",
                        "AI summarization request failed. Try again later."))))
  /\ UNCHANGED <<docs, disk, nextPath, aiMaxRetries, allowedExtensions>>

SyncNext ==
  \/ \E file \in Files : summarizeAndExtract(file)
  \/ \E call \in Requests, content \in Completions :
       completionResolves(call, content)
  \/ \E call \in Requests : completionRejects(call)

SyncSpec == Init /\ [][SyncNext]_vars

\* uploads of the names of NameFiles, and reads of the records they create
NameNext ==
  \/ \E file \in NameFiles : uploadDocument(file)
  \/ \E call \in Requests : uploadWrite(call)
  \/ \E call \in Requests : uploadWriteFails(call)
  \/ \E call \in Requests : uploadUnlink(call)
  \/ \E call \in Requests : uploadCreate(call)
  \/ \E id \in DocIds : getDocument(id)

NameSpec == Init /\ [][NameNext]_vars

\* the synchronous revision given every name, type and buffer of MimeFiles
ExtractNext ==
  \/ \E file \in MimeFiles : summarizeAndExtract(file)
  \/ \E call \in Requests, content \in Completions :
       completionResolves(call, content)
  \/ \E call \in Requests : completionRejects(call)

ExtractSpec == Init /\ [][ExtractNext]_vars

\* ------------------------------------------------------------------------
\* Both revisions of the service, given documents as long as the prompt's cap;
\* the text of these is extracted, so no upload cleans up, and the answers to
\* abandoned attempts, which change nothing, are left out
\* ------------------------------------------------------------------------
PromptNext ==
  \/ \E file \in LongFiles : uploadDocument(file)
  \/ \E call \in Requests : uploadWrite(call)
  \/ \E call \in Requests : uploadWriteFails(call)
  \/ \E call \in Requests : uploadCreate(call)
  \/ \E id \in DocIds : analyzeDocument(id)
  \/ \E call \in Requests : analyzeMark(call)
  \/ \E call \in Requests, r \in Responses : providerResponds(call, r)
  \/ \E call \in Requests : providerRejects(call)
  \/ \E call \in Requests : timerFires(call)
  \/ \E call \in Requests : analyzeFailInner(call)
  \/ \E call \in Requests : analyzeFailOuter(call)
  \/ \E call \in Requests : analyzeSave(call)
  \/ \E id \in DocIds : getDocument(id)
  \/ \E file \in LongFiles : summarizeAndExtract(file)
  \/ \E call \in Requests, content \in Completions :
       completionResolves(call, content)
  \/ \E call \in Requests : completionRejects(call)

PromptSpec == Init /\ [][PromptNext]_vars

\* ------------------------------------------------------------------------
\* The persisted workflow over a database whose calls may reject
\* ------------------------------------------------------------------------
\* what a rejected prisma call throws
PersistenceError ==
  Throw("PrismaClientKnownRequestError", "Invalid prisma.document invocation")

\* line 353: findUnique rejects, outside every try block
analyzeReadRejects(id) ==
  /\ Arrives(Finish(NewCall("analyze", id, NoFile), Err(PersistenceError)))
  /\ UNCHANGED <<docs, disk, nextPath, aiMaxRetries, allowedExtensions>>

\* lines 381-384: the update to processing rejects, before the try of line 407
analyzeMarkRejects(call) ==
  /\ At(call, "analyze", "mark")
  /\ Becomes(call, Finish(call, Err(PersistenceError)))
  /\ UNCHANGED <<docs, disk, nextPath, aiMaxRetries, allowedExtensions>>

\* lines 434, 446, 453: failDocument rejects inside the try; line 482 catches
analyzeFailInnerRejects(call) ==
  /\ At(call, "analyze", "failInner")
  /\ Becomes(call, [call EXCEPT !.pc = "failOuter", !.err = PersistenceError,
                                !.logged = call.reason])
  /\ UNCHANGED <<docs, disk, nextPath, aiMaxRetries, allowedExtensions>>

\* lines 465-473: the update of the result rejects; line 482 catches
analyzeSaveRejects(call) ==
  /\ At(call, "analyze", "save")
  /\ Becomes(call, [call EXCEPT !.pc = "failOuter", !.err = PersistenceError])
  /\ UNCHANGED <<docs, disk, nextPath, aiMaxRetries, allowedExtensions>>

\* line 484: failDocument rejects inside the catch block, which has no try
analyzeFailOuterRejects(call) ==
  /\ At(call, "analyze", "failOuter")
  /\ Becomes(call,
       Finish([call EXCEPT !.logged = "Gemini analysis failed"],
              Err(PersistenceError)))
  /\ UNCHANGED <<docs, disk, nextPath, aiMaxRetries, allowedExtensions>>

\* lines 328-337: create rejects, outside every try block; the file stays
uploadCreateRejects(call) ==
  /\ At(call, "upload", "create")
  /\ Becomes(call, Finish(call, Err(PersistenceError)))
  /\ UNCHANGED <<docs, disk, nextPath, aiMaxRetries, allowedExtensions>>

FaultNext ==
  \/ Next
  \/ \E id \in DocIds : analyzeReadRejects(id)
  \/ \E call \in Requests : analyzeMarkRejects(call)
  \/ \E call \in Requests : analyzeFailInnerRejects(call)
  \/ \E call \in Requests : analyzeSaveRejects(call)
  \/ \E call \in Requests : analyzeFailOuterRejects(call)
  \/ \E call \in Requests : uploadCreateRejects(call)

FaultSpec == Init /\ [][FaultNext]_vars

\* ------------------------------------------------------------------------
\* Vocabulary of the properties
\* ------------------------------------------------------------------------
Records == 1..Len(docs)

Analyses == {call \in Requests : call.op = "analyze"}

\* between its write of processing and its first write of analyzed or failed
InPipeline(call) ==
  /\ call.op = "analyze"
  /\ \/ call.pc \in {"await", "failInner", "save"}
     \/ call.pc = "failOuter" /\ call.writes = 1

PipelineCount(id) ==
  BagCardinality([call \in {x \in Requests : InPipeline(x) /\ x.id = id}
                    |-> calls[call]])

\* the request that arrived in this step
Arrived(new) ==
  /\ BagCardinality(calls') = BagCardinality(calls) + 1
  /\ new \in BagToSet(calls')
  /\ CopiesIn(new, calls') = CopiesIn(new, calls) + 1

\* one request in flight was replaced by what it became
Replaced(old, new) ==
  /\ BagCardinality(calls') = BagCardinality(calls)
  /\ old \in Requests /\ new \in BagToSet(calls') /\ old # new
  /\ CopiesIn(old, calls') = CopiesIn(old, calls) - 1
  /\ CopiesIn(new, calls') = CopiesIn(new, calls) + 1

\* the request in flight that took this step, and what it became; the late
\* answer to an attempt it abandoned is no step of the request
Stepped(old, new) ==
  /\ Replaced(old, new)
  /\ old.abandoned \subseteq new.abandoned

Conflict == Err(Throw("Conflict", "Document analysis is already in progress."))
NotFound == Err(Throw("NotFound", "Document not found."))

\* ------------------------------------------------------------------------
\* C1: at no time are two analyze pipelines in flight for the same record,
\* so among the analyze calls racing on one record only one moves it to
\* processing and invokes the model.
\* ------------------------------------------------------------------------
\* C1: no record ever has two analyze pipelines in flight
C1_SinglePipeline == \A id \in DocIds : PipelineCount(id) <= 1

\* ------------------------------------------------------------------------
\* C2: every change of a record's status is uploaded -> processing,
\* processing -> analyzed, processing -> failed or failed -> processing.
\* ------------------------------------------------------------------------
AllowedStatusChanges ==
  { <<"uploaded", "processing">>, <<"processing", "analyzed">>,
    <<"processing", "failed">>, <<"failed", "processing">> }

StatusChangeAllowed ==
  \A id \in Records :
    docs'[id].status # docs[id].status
      => <<docs[id].status, docs'[id].status>> \in AllowedStatusChanges

\* C2: every step changes every status along an allowed edge only
C2_StatusTransitions == [][StatusChangeAllowed]_vars

\* ------------------------------------------------------------------------
\* C3: analyze on a record read as analyzed returns exactly the stored id,
\* status, summary, docType and metadata, invokes no model and writes
\* nothing; a second analyze in sequence after a first success returns the
\* first one's result without an invocation of its own.
\* ------------------------------------------------------------------------
ShortCircuits ==
  \A id \in Records, new \in BagToSet(calls') :
    (docs[id].status = "analyzed" /\ Arrived(new)
       /\ new.op = "analyze" /\ new.id = id)
    => /\ new.pc = "done"
       /\ new.ret = Ok(AnalysisView(id, docs[id]))
       /\ new.invocations = 0 /\ new.writes = 0
       /\ docs' = docs

\* the only analysis of the record so far was first, and second came after it
InSequence(first, second) ==
  /\ first \in Analyses /\ second \in Analyses
  /\ first.id = second.id
  /\ first.pc = "done" /\ first.ret.kind = "ok" /\ first.writes > 0
  /\ second.seen = "analyzed"
  /\ \A other \in Analyses :
       (other.id = first.id /\ other # first) => other.seen = "analyzed"
  /\ CopiesIn(first, calls) = 1

SecondReturnsFirst ==
  \A first \in Requests, second \in Requests :
    InSequence(first, second)
    => /\ second.pc = "done"
       /\ second.ret = first.ret
       /\ second.invocations = 0 /\ second.writes = 0
       /\ first.invocations = first.answeredAt

AttemptErrors == {"provider error", "AI request timed out"}

\* every attempt of the call failed and the loop is over
AllAttemptsFailed(call) ==
  /\ call.op = "analyze" /\ call.writes > 0
  /\ call.pc \in {"failInner", "failOuter", "save", "done"}
  /\ call.answeredAt = 0

RetryBound(call) ==
  /\ call.invocations <= aiMaxRetries
  /\ call.pc = "await"
       => call.invocations = call.attempt /\ call.answeredAt = 0
  /\ call.answeredAt > 0
       => call.invocations = call.answeredAt /\ call.pc # "await"
  /\ AllAttemptsFailed(call)
       => /\ call.invocations = aiMaxRetries
          /\ call.logged \in AttemptErrors
          /\ call.pc = "failOuter"
               => call.err.type = "Error" /\ call.err.msg = call.logged
          /\ call.pc \in {"failOuter", "done"}

\* C4: the attempt loop makes at most, and on failure exactly, aiMaxRetries invocations
C4_RetryBound == aiMaxRetries >= 1 => \A call \in Analyses : RetryBound(call)

C4_Witness ==
  \E call \in Analyses :
    /\ AllAttemptsFailed(call) /\ call.pc = "done"
    /\ call.invocations = 2 /\ aiMaxRetries = 2
    /\ call.logged = "AI request timed out"

\* ------------------------------------------------------------------------
\* C5: every analyze call that has moved a record to processing returns, and
\* when it returns the record is analyzed if it returned a result and failed
\* if it returned an error; no record stays in processing forever.
\* ------------------------------------------------------------------------
AnalysisPending == \E call \in Analyses : call.pc # "done"

Processing(id) == id \in Records /\ docs[id].status = "processing"

ReturnsSettled ==
  \A old \in Requests, new \in BagToSet(calls') :
    (Stepped(old, new) /\ new.op = "analyze" /\ new.pc = "done"
       /\ new.writes > 0)
    => /\ new.ret.kind = "ok" => docs'[new.id].status = "analyzed"
       /\ new.ret.kind = "error" => docs'[new.id].status = "failed"
       /\ new.ret.kind \in {"ok", "error"}

\* C5: pending analyses return, leaving the record analyzed or failed
C5_AnalyzeTerminates ==
  /\ AnalysisPending ~> ~AnalysisPending
  /\ \A id \in DocIds : Processing(id) ~> ~Processing(id)
  /\ [][ReturnsSettled]_vars

C5_Witness ==
  \E call \in Analyses :
    /\ call.pc = "done" /\ call.writes > 0 /\ call.ret.kind = "error"
    /\ docs[call.id].status = "failed"
    /\ ~AnalysisPending

\* ------------------------------------------------------------------------
\* C6: every failure after the transition to processing (timeout, provider
\* error, empty response, malformed JSON, missing field) leaves the record
\* failed and reaches the caller as the one generic analysis-failed error;
\* the cause is logged, and neither returned nor stored.
\* ------------------------------------------------------------------------
FailureCauses ==
  { "AI request timed out", "provider error",
    "AI returned an empty response.", "AI generated an invalid response.",
    "AI response was incomplete.", "Cannot read properties of null" }

FailsGenerically ==
  \A old \in Requests, new \in BagToSet(calls') :
    (Stepped(old, new) /\ new.op = "analyze" /\ new.pc = "done"
       /\ new.writes > 0 /\ new.ret.kind = "error")
    => /\ new.ret = Err(GenericFailure)
       /\ new.logged \in FailureCauses
       /\ new.ret.msg \notin FailureCauses
       /\ docs' = [docs EXCEPT ![new.id].status = "failed"]

\* C6: a failed analysis leaves the record failed and returns the generic error
C6_GenericFailure == [][FailsGenerically]_vars

C6_Witness ==
  \E call \in Analyses :
    /\ call.pc = "done" /\ call.ret = Err(GenericFailure)
    /\ call.logged = "AI generated an invalid response."
    /\ docs[call.id].status = "failed"

\* ------------------------------------------------------------------------
\* C7: analyze on a record read as processing fails with Conflict, which is
\* neither NotFound nor the analysis-failed error, invokes no model and
\* leaves the record as it is.
\* ------------------------------------------------------------------------
RejectsInPlace ==
  \A id \in Records, new \in BagToSet(calls') :
    (docs[id].status = "processing" /\ Arrived(new)
       /\ new.op = "analyze" /\ new.id = id)
    => /\ new.pc = "done"
       /\ new.ret = Conflict
       /\ new.ret # NotFound /\ new.ret # Err(GenericFailure)
       /\ new.invocations = 0 /\ new.writes = 0
       /\ docs' = docs

\* C7: analyze on a processing record is rejected in place with Conflict
C7_ConflictWhileProcessing == [][RejectsInPlace]_vars

C7_Witness ==
  \E call \in Analyses :
    /\ call.seen = "processing" /\ call.ret = Conflict
    /\ docs[call.id].status = "processing"

\* ------------------------------------------------------------------------
\* C8: a failed record leaves failed only by a write of an analyze call on
\* it; an analyze call that reads failed is accepted, writes processing and
\* invokes the model, and can end in analyzed.
\* ------------------------------------------------------------------------
RetryAccepted ==
  \A call \in Analyses :
    call.seen = "failed"
    => /\ call.ret # Conflict
       /\ call.pc # "mark" => call.writes >= 1 /\ call.invocations >= 1
       /\ call.pc = "done" => call.writes >= 2

LeavesFailedByAnalyze ==
  \A id \in Records :
    (docs[id].status = "failed" /\ docs'[id].status # "failed")
    => \E old \in Requests, new \in BagToSet(calls') :
         /\ Stepped(old, new)
         /\ old.op = "analyze" /\ old.id = id
         /\ new.writes = old.writes + 1

RetryMarksProcessing ==
  \A old \in Requests, new \in BagToSet(calls') :
    (Stepped(old, new) /\ old.op = "analyze" /\ old.pc = "mark"
       /\ old.seen = "failed")
    => docs'[old.id].status = "processing" /\ new.invocations = 1

\* C8: failed is left only by an analyze call, which is accepted on a failed record
C8_FailedIsRetryable ==
  []RetryAccepted /\ [][LeavesFailedByAnalyze /\ RetryMarksProcessing]_vars

C8_Witness ==
  \E call \in Analyses :
    /\ call.seen = "failed" /\ call.pc = "done" /\ call.ret.kind = "ok"
    /\ docs[call.id].status = "analyzed"

\* ------------------------------------------------------------------------
\* C9: analyze and get on an id without a record fail with NotFound, create
\* and change no record, and analyze invokes no model.
\* ------------------------------------------------------------------------
UnknownIdNotFound ==
  \A id \in DocIds \ Records, new \in BagToSet(calls') :
    (Arrived(new) /\ new.op \in {"analyze", "get"} /\ new.id = id)
    => /\ new.pc = "done"
       /\ new.ret = NotFound
       /\ new.invocations = 0 /\ new.writes = 0
       /\ docs' = docs /\ disk' = disk

\* C9: analyze and get on an unknown id return NotFound and change nothing
C9_NotFound == [][UnknownIdNotFound]_vars

C9_Witness ==
  /\ docs # <<>>
  /\ \E call \in Analyses : call.ret = NotFound /\ call.id \notin Records
  /\ \E call \in Requests : call.op = "get" /\ call.ret = NotFound

\* ------------------------------------------------------------------------
\* C10: a record is created only by an upload that passed validation and
\* whose text was extracted, with status uploaded; every record has an
\* extractedText of trimmed length at least 5, which nothing changes.
\* ------------------------------------------------------------------------
TextIsReadable ==
  \A id \in Records : Len(Trim(docs[id].extractedText)) >= MinTextLen

CreatedByValidUpload ==
  /\ Len(docs') >= Len(docs)
  /\ \A id \in Records : docs'[id].extractedText = docs[id].extractedText
  /\ Len(docs') > Len(docs)
       => /\ Len(docs') = Len(docs) + 1
          /\ docs'[Len(docs')].status = "uploaded"
          /\ \E old \in Requests, new \in BagToSet(calls') :
               LET got == extractTextFromBuffer(old.file.buffer,
                            old.file.originalname, old.file.mimetype)
               IN /\ Stepped(old, new) /\ old.op = "upload"
                  /\ ~Validate(old.file).threw
                  /\ ~got.threw
                  /\ docs'[Len(docs')].extractedText = got.value
                  /\ new.ret.kind = "ok" /\ new.ret.value.status = "uploaded"

\* C10: records come from valid uploads only and keep a readable extractedText
C10_RecordsHaveText == []TextIsReadable /\ [][CreatedByValidUpload]_vars

C10_Witness ==
  \E id \in Records :
    /\ Len(Trim(docs[id].extractedText)) = MinTextLen
    /\ Len(docs[id].extractedText) > MinTextLen
    /\ docs[id].status = "analyzed"

\* ------------------------------------------------------------------------
\* C11: when extraction fails during upload, the upload tries once to delete
\* the copy it wrote, creates no record and returns the error; the copy is
\* gone when the delete succeeded and stays when the delete itself failed.
\* ------------------------------------------------------------------------
ExtractionFails(file) ==
  \E got \in {extractTextFromBuffer(file.buffer, file.originalname,
                                     file.mimetype)} :
    got.threw \/ Len(Trim(got.value)) < MinTextLen

ExtractionErrors ==
  {"We could not read text from this document.",
   "The uploaded document contains no readable text."}

ExtractionFailed(call) ==
  /\ call.op = "upload" /\ call.pc = "done"
  /\ call.ret.kind = "error" /\ call.ret.msg \in ExtractionErrors

FailedExtractionCleansUp ==
  \A old \in Requests, new \in BagToSet(calls') :
    (Stepped(old, new) /\ old.op = "upload")
    => /\ (old.pc = "write" /\ new.pc # "done")
            => /\ ExtractionFails(old.file) <=> new.pc = "unlink"
               /\ new.pc = "unlink"
                    => new.err.msg \in ExtractionErrors /\ docs' = docs
       /\ old.pc = "unlink"
            => /\ ExtractionFailed(new) /\ new.ret = Err(old.err)
               /\ docs' = docs
               /\ new.cleanup \in {"removed", "ignored"}
               /\ new.cleanup = "removed" => old.storagePath \notin disk'
               /\ new.cleanup = "ignored" => disk' = disk

NoRecordOfFailedUpload ==
  \A call \in Requests :
    ExtractionFailed(call)
    => \A id \in Records : docs[id].storagePath # call.storagePath

\* C11: a failed extraction is cleaned up best-effort and leaves no record
C11_ExtractionCleanup ==
  []NoRecordOfFailedUpload /\ [][FailedExtractionCleansUp]_vars

C11_Witness ==
  \E call \in Requests :
    /\ ExtractionFailed(call)
    /\ call.ret.msg = "The uploaded document contains no readable text."
    /\ call.cleanup = "removed" /\ call.storagePath \notin disk
    /\ docs = <<>>

\* C11 as stated: after a failed extraction the written copy is never left
C11_NoOrphanFile ==
  \A call \in Requests :
    ExtractionFailed(call)
    => /\ call.storagePath \notin disk
       /\ \A id \in Records : docs[id].storagePath # call.storagePath

\* ------------------------------------------------------------------------
\* C12: upload accepts a file exactly when its extension is one of .pdf,
\* .docx, .txt and its size is at most the configured maximum; any other file
\* is rejected before a file is written or a record created.
\* ------------------------------------------------------------------------
AcceptableFile(file) ==
  /\ ToLowerCase(Extname(file.originalname)) \in {ExtPdf, ExtDocx, ExtTxt}
  /\ file.size <= maxFileSizeBytes

\* rejected by the checks made before the storage path exists
Rejected(call) ==
  /\ call.op = "upload" /\ call.pc = "done"
  /\ call.ret.kind = "error" /\ call.ret.type = "BadRequest"
  /\ call.storagePath = NoPath

\* C12: a non-empty file is rejected exactly when its extension or size is not accepted
C12_UploadAccepts ==
  \A call \in Requests :
    (call.op = "upload" /\ call.file.present /\ call.file.buffer.length > 0)
    => (AcceptableFile(call.file) <=> ~Rejected(call))

\* ------------------------------------------------------------------------
\* C13: an attempt that completes with an empty or whitespace-only text ends
\* the attempt loop: the call invokes the model no more, even when attempts
\* remain, the record becomes failed and the call returns an error.
\* ------------------------------------------------------------------------
EmptyAnswered(call) ==
  /\ call.op = "analyze"
  /\ ~call.responseText.isNull
  /\ \A i \in DOMAIN call.responseText.raw :
       call.responseText.raw[i] \in {" ", "\n", "\t"}

EmptyEndsLoop ==
  \A call \in Requests :
    EmptyAnswered(call)
    => /\ call.pc \in {"failInner", "failOuter"}
       /\ call.invocations = call.answeredAt
       /\ call.err.msg = "AI returned an empty response."

EmptyFails ==
  \A old \in Requests, new \in BagToSet(calls') :
    (Stepped(old, new) /\ EmptyAnswered(old))
    => /\ new.invocations = old.invocations
       /\ docs'[old.id].status = "failed"
       /\ old.pc = "failInner" => new.pc = "failOuter"
       /\ old.pc = "failOuter" => new.pc = "done" /\ new.ret.kind = "error"

\* C13: an empty answer is not retried; the record fails and an error is returned
C13_EmptyNotRetried == []EmptyEndsLoop /\ [][EmptyFails]_vars

C13_Witness ==
  \E call \in Requests :
    /\ EmptyAnswered(call) /\ call.pc = "failOuter"
    /\ call.attempt < aiMaxRetries /\ call.invocations = 1
    /\ docs[call.id].status = "failed"

\* ------------------------------------------------------------------------
\* C14: summarizeAndExtract asks the provider at most once per call and never
\* again after a failure, touches no record, and returns either an object
\* with all six required keys or an error.
\* ------------------------------------------------------------------------
Summaries == {call \in Requests : call.op = "summarize"}

SixFields == {"summary", "title", "keywords", "language", "domain", "sentiment"}

OneRequestFullResult ==
  \A call \in Summaries :
    /\ call.invocations <= 1 /\ call.writes = 0
    /\ call.pc = "done"
         => \/ call.ret.kind = "error"
            \/ call.ret.kind = "ok" /\ SixFields \subseteq call.ret.value.keys

NoRetryNoStore ==
  /\ docs' = docs /\ disk' = disk
  /\ \A old \in Requests, new \in BagToSet(calls') :
       (Stepped(old, new) /\ old.op = "summarize")
       => /\ old.pc = "complete" /\ old.invocations = 1
          /\ new.pc = "done" /\ new.invocations = 1

\* C14: one provider request at most, no record touched, a full result or an error
C14_SummarizeOnce == []OneRequestFullResult /\ [][NoRetryNoStore]_vars

C14_Witness ==
  /\ \E call \in Summaries :
       /\ call.pc = "done" /\ call.invocations = 1
       /\ call.ret.kind = "ok" /\ "extra" \in call.ret.value.keys
  /\ \E call \in Summaries :
       /\ call.pc = "done" /\ call.invocations = 1
       /\ call.ret.kind = "error"
       /\ call.ret.msg = "AI summarization request failed. Try again later."
  /\ \E call \in Summaries : call.pc = "done" /\ call.invocations = 0

\* ------------------------------------------------------------------------
\* C15: the required fields are checked in the order summary, title,
\* keywords, language, domain, sentiment; the error names the first of them
\* that is no key of the parsed object, and an object with all six is
\* returned.
\* ------------------------------------------------------------------------
FieldOrder ==
  <<"summary", "title", "keywords", "language", "domain", "sentiment">>

AbsentFields(keys) == {i \in 1..Len(FieldOrder) : FieldOrder[i] \notin keys}

MissingField(field) ==
  Err(Throw("InternalServerError", MissingFieldMessage(field)))

\* C15: the first absent field in the fixed order is the one reported
C15_FirstMissingField ==
  \A call \in Summaries :
    (call.pc = "done" /\ call.data.kind = "object")
    => IF AbsentFields(call.data.keys) = {}
       THEN call.ret = Ok(call.data)
       ELSE \E i \in AbsentFields(call.data.keys) :
              /\ \A j \in AbsentFields(call.data.keys) : i <= j
              /\ call.ret = MissingField(FieldOrder[i])

C15_Witness ==
  /\ \E call \in Summaries :
       /\ call.pc = "done"
       /\ call.data.kind = "object"
       /\ AbsentFields(call.data.keys) = {2, 6}
       /\ call.ret.msg = "AI response missing required field: title"
  /\ \E call \in Summaries :
       /\ call.pc = "done" /\ call.data.kind = "object"
       /\ AbsentFields(call.data.keys) = {} /\ call.ret.kind = "ok"

\* ------------------------------------------------------------------------
\* C16: in the asynchronous workflow a parsed object is accepted, and the
\* record becomes analyzed, exactly when summary and docType both have a
\* non-empty value; an object whose summary is the empty string is rejected
\* as incomplete and the record becomes failed.
\* ------------------------------------------------------------------------
ObjectAnswered(call) ==
  /\ call.op = "analyze"
  /\ ~call.responseText.isNull
  /\ call.parsed.kind = "object"

Populated(v) == v \notin {Absent, Null, ""}

KeyPresent(v) == v # Absent

ValuesDecide ==
  \A call \in Requests :
    ObjectAnswered(call)
    => IF /\ Populated(call.parsed.summary)
          /\ Populated(call.parsed.docType)
       THEN call.pc = "save"
       ELSE /\ call.pc \in {"failInner", "failOuter"}
            /\ call.err.msg = "AI response was incomplete."

AcceptedIsAnalyzed ==
  \A old \in Requests, new \in BagToSet(calls') :
    (Stepped(old, new) /\ ObjectAnswered(old))
    => /\ old.pc = "save"
            => docs'[old.id].status = "analyzed" /\ new.ret.kind = "ok"
       /\ old.pc \in {"failInner", "failOuter"}
            => docs'[old.id].status = "failed"

\* C16: summary and docType must both be non-empty for the object to be accepted
C16_RequiredValues == []ValuesDecide /\ [][AcceptedIsAnalyzed]_vars

C16_Witness ==
  \E call \in Requests :
    /\ ObjectAnswered(call) /\ call.pc = "failOuter"
    /\ call.parsed.summary = ""
    /\ KeyPresent(call.parsed.docType)
    /\ docs[call.id].status = "failed"

\* C16 as stated: an object is accepted exactly when both keys are present
C16_KeyPresenceOnly ==
  \A call \in Requests :
    ObjectAnswered(call)
    => (/\ KeyPresent(call.parsed.summary)
        /\ KeyPresent(call.parsed.docType)) <=> call.pc = "save"

\* ------------------------------------------------------------------------
\* C17: the JSON candidate is the trimmed interior of the first fenced block
\* tagged json when there is one, whatever braces lie outside it; otherwise
\* the text from the first { to the last } when a { comes before a };
\* otherwise the trimmed text.  A candidate that does not parse makes the
\* record failed and the call return its error.
\* ------------------------------------------------------------------------
Least(S) == CHOOSE x \in S : \A y \in S : x <= y
Greatest(S) == CHOOSE x \in S : \A y \in S : y <= x

TaggedJson(text, p) ==
  /\ p + 6 <= Len(text)
  /\ \A i \in 1..3 : text[p + i - 1] = Backtick
  /\ text[p + 3] \in {"j", "J"} /\ text[p + 4] \in {"s", "S"}
  /\ text[p + 5] \in {"o", "O"} /\ text[p + 6] \in {"n", "N"}

Closings(text, p) ==
  {q \in (p + 7)..(Len(text) - 2) : \A i \in 0..2 : text[q + i] = Backtick}

Openings(text) ==
  {p \in 1..Len(text) : TaggedJson(text, p) /\ Closings(text, p) # {}}

Braces(text, ch) == {i \in 1..Len(text) : text[i] = ch}

ExpectedCandidate(text) ==
  IF Openings(text) # {}
  THEN LET p == Least(Openings(text))
       IN Trim(SubSeq(text, p + 7, Least(Closings(text, p)) - 1))
  ELSE IF \E i \in Braces(text, "{"), j \in Braces(text, "}") : i < j
  THEN SubSeq(text, Least(Braces(text, "{")), Greatest(Braces(text, "}")))
  ELSE Trim(text)

Answered(call) ==
  /\ call.op = "analyze" /\ ~call.responseText.isNull
  /\ \E i \in DOMAIN call.responseText.raw :
       call.responseText.raw[i] \notin {" ", "\n", "\t"}

CandidateByPriority ==
  \A call \in Requests :
    Answered(call)
    => /\ call.candidate = ExpectedCandidate(call.responseText.raw)
       /\ call.parsed.kind = "malformed"
            => /\ call.pc \in {"failInner", "failOuter"}
               /\ call.err.msg = "AI generated an invalid response."

UnparsedFails ==
  \A old \in Requests, new \in BagToSet(calls') :
    (Stepped(old, new) /\ Answered(old) /\ old.parsed.kind = "malformed")
    => /\ docs'[old.id].status = "failed"
       /\ new.pc = "done" => new.ret = Err(GenericFailure)

\* C17: the candidate follows the priority fenced block, braces, trimmed text
C17_JsonCandidate == []CandidateByPriority /\ [][UnparsedFails]_vars

C17_Witness ==
  /\ \E call \in Requests :
       /\ Answered(call) /\ call.pc = "save"
       /\ Braces(call.responseText.raw, "{") # {}
       /\ Openings(call.responseText.raw) # {}
       /\ Least(Braces(call.responseText.raw, "{"))
            < Least(Openings(call.responseText.raw))
       /\ call.candidate = Obj("2")
  /\ \E call \in Requests :
       /\ Answered(call) /\ call.pc = "failOuter"
       /\ call.candidate = <<"}", " ", "{">>
       /\ docs[call.id].status = "failed"

\* ------------------------------------------------------------------------
\* C18: the metadata stored on a record serializes to at most 10,000
\* characters; a metadata object of more than 10,000 characters is stored as
\* the notice object, one of 10,000 characters or fewer is stored as it is
\* (and where the model gave none, the empty object is stored).
\* ------------------------------------------------------------------------
StoredWithinCap ==
  \A id \in Records : docs[id].metadata.len <= 10000

StoredAs(metadata, stored) ==
  /\ (metadata.kind = "object" /\ metadata.len > 10000)
       => stored = MetaNotice
  /\ (metadata.kind = "object" /\ metadata.len <= 10000)
       => stored = metadata

SavesCapped ==
  \A old \in Requests, new \in BagToSet(calls') :
    (Stepped(old, new) /\ old.op = "analyze" /\ old.pc = "save")
    => /\ StoredAs(old.parsed.metadata, docs'[old.id].metadata)
       /\ old.parsed.metadata.kind \in {"null", "absent"}
            => docs'[old.id].metadata = MetaEmptyObject

\* C18: stored metadata is within the cap: the notice, the value itself, or {} for none
C18_MetadataCap == []StoredWithinCap /\ [][SavesCapped]_vars

C18_Witness ==
  /\ \E id \in Records :
       docs[id].status = "analyzed" /\ docs[id].metadata = MetaNotice
  /\ \E call \in Requests :
       /\ call.op = "analyze" /\ call.pc = "save"
       /\ call.parsed.metadata.len = 10000

\* ------------------------------------------------------------------------
\* C19: in both workflows the text embedded in the prompt is exactly the first
\* min(length, 8000) characters of the extracted text, so a text of at most
\* 8000 characters is embedded unmodified; the stored extractedText is the
\* whole extracted text and is never truncated.
\* ------------------------------------------------------------------------
FirstChars(text, n) ==
  [i \in 1..(IF Len(text) < n THEN Len(text) ELSE n) |-> text[i]]

Prompted(call) == call.pc # "done" /\ call.invocations > 0

SourceText(call) ==
  IF call.op = "analyze" THEN docs[call.id].extractedText ELSE call.text

PromptIsPrefix ==
  \A call \in Requests :
    (Prompted(call) /\ call.op \in {"analyze", "summarize"})
    => /\ call.promptText = FirstChars(SourceText(call), PromptCap)
       /\ Len(SourceText(call)) <= PromptCap
            => call.promptText = SourceText(call)

StoredWhole ==
  /\ \A id \in Records : docs'[id].extractedText = docs[id].extractedText
  /\ Len(docs') > Len(docs)
       => \E old \in Requests :
            /\ old.op = "upload" /\ old.pc = "create"
            /\ docs'[Len(docs')].extractedText =
                 extractTextFromBuffer(old.file.buffer, old.file.originalname,
                                       old.file.mimetype).value

\* C19: the prompt carries the first 8000 characters; the record keeps them all
C19_PromptTruncation == []PromptIsPrefix /\ [][StoredWhole]_vars

C19_Witness ==
  /\ \E call \in Requests :
       /\ call.op = "analyze" /\ Prompted(call)
       /\ Len(docs[call.id].extractedText) = PromptCap + 1
       /\ Len(call.promptText) = PromptCap
       /\ call.promptText[1] = "b"
  /\ \E call \in Requests :
       /\ call.op = "summarize" /\ Prompted(call)
       /\ Len(call.text) = PromptCap + 1
       /\ Len(call.promptText) = PromptCap
       /\ call.promptText[1] = "b"

\* ------------------------------------------------------------------------
\* C20: within one analyze call attempt k+1 starts only after attempt k has
\* failed or timed out, so at most one attempt that is not abandoned is pending;
\* a provider response or error arriving after the timer of its attempt fired
\* is ignored: it is never the response text of the call, never changes the
\* record and never ends the retry loop.
\* ------------------------------------------------------------------------
TimedOut == "AI request timed out"

OnePending ==
  \A call \in Analyses :
    /\ call.pc = "await"
         => /\ call.attempt = call.invocations
            /\ call.abandoned \subseteq 1..(call.attempt - 1)
    /\ Cardinality(call.abandoned) <= call.invocations

AttemptsInTurn ==
  \A old \in Requests, new \in BagToSet(calls') :
    (Stepped(old, new) /\ new.op = "analyze"
       /\ new.invocations # old.invocations)
    => /\ new.invocations = old.invocations + 1
       /\ new.pc = "await" /\ new.attempt = new.invocations
       /\ \/ old.pc = "mark" /\ new.attempt = 1
          \/ /\ old.pc = "await" /\ new.attempt = old.attempt + 1
             /\ new.logged \in {TimedOut, "provider error"}
             /\ new.logged = TimedOut <=> old.attempt \in new.abandoned

LateIgnored ==
  \A old \in Requests, new \in BagToSet(calls') :
    (Replaced(old, new) /\ ~Stepped(old, new))
    => /\ new = [old EXCEPT !.abandoned = new.abandoned]
       /\ new.abandoned \subseteq old.abandoned
       /\ docs' = docs

\* C20: attempts run one after the other, and late answers change nothing
C20_LateAnswerIgnored ==
  []OnePending /\ [][AttemptsInTurn]_vars /\ [][LateIgnored]_vars

C20_Witness ==
  \E call \in Analyses :
    /\ call.pc = "await" /\ call.attempt = 2
    /\ call.logged = TimedOut
    /\ call.abandoned = {}
    /\ call.responseText = NullText
    /\ docs[call.id].status = "processing"

\* ------------------------------------------------------------------------
\* C21: in every reachable state a record whose status is analyzed has a
\* populated summary and docType and a metadata that is not null; the step to
\* analyzed writes the four fields in one update, so neither a get nor an
\* analyze ever sees an analyzed record without them.
\* ------------------------------------------------------------------------
HasResult(doc) ==
  /\ Truthy(doc.summary) /\ Truthy(doc.docType)
  /\ doc.metadata.kind = "object"

AnalyzedHasResult ==
  \A id \in Records : docs[id].status = "analyzed" => HasResult(docs[id])

SeenAnalyzedHasResult ==
  \A call \in Requests :
    (call.op \in {"analyze", "get"} /\ call.pc = "done"
       /\ call.ret.kind = "ok" /\ call.ret.value.status = "analyzed")
    => HasResult(call.ret.value)

BecomesAnalyzedAtOnce ==
  \A id \in Records :
    (docs'[id].status = "analyzed" /\ docs'[id] # docs[id])
    => \E old \in Requests :
         /\ old.op = "analyze" /\ old.pc = "save" /\ old.id = id
         /\ docs'[id].summary = old.data.summary
         /\ docs'[id].docType = old.data.docType
         /\ HasResult(docs'[id])

\* C21: analyzed records carry their result, written together with the status
C21_AnalyzedHasResult ==
  /\ []AnalyzedHasResult
  /\ []SeenAnalyzedHasResult
  /\ [][BecomesAnalyzedAtOnce]_vars

C21_Witness ==
  \E id \in Records, call \in Requests :
    /\ docs[id].status = "analyzed"
    /\ docs[id].metadata = MetaEmptyObject
    /\ call.op = "get" /\ call.pc = "done" /\ call.id = id
    /\ call.ret.kind = "ok" /\ call.ret.value.status = "analyzed"
    /\ call.ret.value.metadata = MetaEmptyObject

\* ------------------------------------------------------------------------
\* C22: once a record has status analyzed, its stored summary, docType and
\* metadata never change again, whatever upload, analyze and get calls follow
\* and however they interleave.
\* ------------------------------------------------------------------------
ResultOf(doc) == <<doc.summary, doc.docType, doc.metadata>>

ResultKept ==
  \A id \in Records :
    docs[id].status = "analyzed" => ResultOf(docs'[id]) = ResultOf(docs[id])

\* C22: no step changes the stored result of an analyzed record
C22_ResultStable == [][ResultKept]_vars

\* ------------------------------------------------------------------------
\* C23: the steps to processing and the steps to failed change the status of
\* the record and nothing else: summary, docType, metadata, extractedText,
\* originalName, mimeType, size and storagePath stay, and no field of the
\* record receives the failure reason.
\* ------------------------------------------------------------------------
RecordFields ==
  {"originalName", "mimeType", "size", "storagePath", "extractedText",
   "summary", "docType", "metadata", "status"}

StatusOnly ==
  \A id \in Records :
    (docs'[id] # docs[id] /\ docs'[id].status \in {"processing", "failed"})
    => /\ docs'[id] = [docs[id] EXCEPT !.status = docs'[id].status]
       /\ docs'[id].status # docs[id].status

NoReasonField == \A id \in Records : DOMAIN docs[id] = RecordFields

\* C23: marking a record processing or failed writes its status only
C23_StatusOnly == []NoReasonField /\ [][StatusOnly]_vars

C23_Witness ==
  \E id \in Records, call \in Analyses :
    /\ docs[id].status = "failed"
    /\ Truthy(docs[id].summary) /\ Truthy(docs[id].docType)
    /\ call.id = id /\ call.pc = "done" /\ call.ret.kind = "error"
    /\ call.writes > 1 /\ call.logged # ""

\* ------------------------------------------------------------------------
\* C24: every outcome of analyze, upload and summarizeAndExtract is a success
\* value or an error of one of the typed kinds; an exception thrown by a
\* collaborator (persistence, storage, extractor, provider) at any step never
\* reaches the caller untyped or with the collaborator's own error text.
\* ------------------------------------------------------------------------
\* the exceptions the service throws on purpose: the kinds of the taxonomy
TypedKinds == {"BadRequest", "InternalServerError", "Conflict", "NotFound"}

\* messages that are, or that embed, the error text of a collaborator
CollaboratorTexts ==
  { PersistenceError.msg, "provider error", TimedOut,
    "PDF is corrupt or unreadable.", "Unsupported file type",
    ExtractFailedMessage("PDF is corrupt or unreadable."),
    ExtractFailedMessage("Unsupported file type") }

Outcomes ==
  {call \in Requests :
     call.op \in {"analyze", "upload", "summarize"} /\ call.pc = "done"}

\* C24: every outcome is a value or a typed error free of collaborator text
C24_TypedOutcomes ==
  \A call \in Outcomes :
    \/ call.ret.kind = "ok"
    \/ /\ call.ret.kind = "error"
       /\ call.ret.type \in TypedKinds
       /\ call.ret.msg \notin CollaboratorTexts

\* ------------------------------------------------------------------------
\* C25: text extraction does not depend on the declared MIME type: two calls
\* with the same bytes and the same filename get the same text or the same
\* error whatever types are declared; the branch (.pdf, .docx, .txt, or
\* unsupported for anything else) follows from the lower-cased extension of
\* the filename alone.
\* ------------------------------------------------------------------------
\* the calls that show what extraction gave: its text, or its error
Extractions ==
  {call \in Requests :
     /\ call.op = "summarize" /\ call.file # NoFile
     /\ call.pc = "complete" \/ call.invocations = 0}

ExtractionOutcome(call) == <<call.text, call.ret>>

MimeIgnored ==
  \A one \in Extractions, other \in Extractions :
    (one.file.buffer = other.file.buffer
       /\ one.file.originalname = other.file.originalname)
    => ExtractionOutcome(one) = ExtractionOutcome(other)

ExtractionError(msg) == Err(Throw("InternalServerError", ExtractFailedMessage(msg)))

BranchByExtension ==
  \A call \in Extractions :
    LET ext == ToLowerCase(Extname(call.file.originalname))
        buffer == call.file.buffer
    IN /\ ext = ExtDocx => call.text = DocxPlaceholder
       /\ ext = ExtTxt => call.text = buffer.utf8
       /\ (ext = ExtPdf /\ buffer.pdfOk) => call.text = buffer.pdfText
       /\ (ext = ExtPdf /\ ~buffer.pdfOk)
            => call.ret = ExtractionError("PDF is corrupt or unreadable.")
       /\ ext \notin {ExtPdf, ExtDocx, ExtTxt}
            => call.ret = ExtractionError("Unsupported file type")

\* C25: the declared type changes nothing; the extension picks the branch
C25_MimeIndependent == MimeIgnored /\ BranchByExtension

C25_Witness ==
  \E one \in Extractions, other \in Extractions :
    /\ one.file.buffer = other.file.buffer
    /\ one.file.originalname = <<"a", ".", "P", "D", "F">>
    /\ other.file.originalname = one.file.originalname
    /\ one.file.mimetype = "text/plain"
    /\ other.file.mimetype = "application/pdf"
    /\ one.pc = "complete" /\ other.pc = "complete"
    /\ one.text = one.file.buffer.pdfText
    /\ \E third \in Extractions :
         /\ third.file.originalname = <<"n", ".", "d", "o", "c">>
         /\ third.file.mimetype = "application/pdf"
         /\ third.ret = ExtractionError("Unsupported file type")

\* ------------------------------------------------------------------------
\* C26: for every original filename the sanitized name in the storage path
\* is non-empty, at most 80 characters long and made of a-z, A-Z, 0-9, '.',
\* '-' and '_' only, so the file written lies directly inside the upload
\* directory; the extension is checked on the name as the client sent it.
\* ------------------------------------------------------------------------
NameChars ==
  {"a", "b", "c", "d", "e", "f", "g", "h", "i", "j", "k", "l", "m",
   "n", "o", "p", "q", "r", "s", "t", "u", "v", "w", "x", "y", "z",
   "A", "B", "C", "D", "E", "F", "G", "H", "I", "J", "K", "L", "M",
   "N", "O", "P", "Q", "R", "S", "T", "U", "V", "W", "X", "Y", "Z",
   "0", "1", "2", "3", "4", "5", "6", "7", "8", "9", ".", "-", "_"}

SafeName(name) ==
  /\ name # <<>> /\ Len(name) <= SafeNameMax
  /\ \A i \in 1..Len(name) : name[i] \in NameChars

\* every storage path made so far: of the calls, the files and the records
PathsMade ==
  {call.storagePath : call \in {c \in Requests : c.storagePath # NoPath}}
    \cup disk \cup {docs[id].storagePath : id \in Records}

PathsAreSafe == \A path \in PathsMade : SafeName(path.name)

CheckedAsSent ==
  /\ \A call \in Requests :
       (call.op = "upload" /\ call.file # NoFile /\ call.file.present)
       => (call.storagePath # NoPath
             <=> /\ ToLowerCase(Extname(call.file.originalname))
                      \in allowedExtensions
                 /\ call.file.buffer.length > 0
                 /\ call.file.size <= DefaultMaxFileSize)
  /\ \A id \in Records :
       ToLowerCase(Extname(docs[id].originalName)) \in allowedExtensions

\* C26: storage paths carry safe names; the extension check reads the original
C26_SafeStorageName == PathsAreSafe /\ CheckedAsSent

C26_Witness ==
  \E id \in Records :
    /\ Len(docs[id].originalName) > SafeNameMax
    /\ \E i \in 1..Len(docs[id].originalName) :
         docs[id].originalName[i] \notin NameChars
    /\ Len(docs[id].storagePath.name) = SafeNameMax
    /\ docs[id].storagePath \in disk
    /\ \E i \in 1..SafeNameMax :
         /\ docs[id].storagePath.name[i] = "_"
         /\ docs[id].originalName[i + Len(docs[id].originalName) - SafeNameMax]
              = "#"

\* ------------------------------------------------------------------------
\* C27: after an upload call has returned, with a result or with an error of
\* any stage (validation, storage write, extraction, empty text, record
\* creation), a file it wrote is in storage if and only if a record whose
\* storagePath names it exists: no stored file without a record, no record
\* without its file.
\* ------------------------------------------------------------------------
ReturnedUploads ==
  {call \in Requests : call.op = "upload" /\ call.pc = "done"}

HasRecord(path) == \E id \in Records : docs[id].storagePath = path

\* C27: a returned upload left its file exactly when it left a record
C27_FileIffRecord ==
  \A call \in ReturnedUploads :
    call.storagePath # NoPath
    => (call.storagePath \in disk <=> HasRecord(call.storagePath))
====
